---- MODULE Spec2Model ----
(***************************************************************************)
(* A model of FinancialDataPipeline (src/financial_data_pipeline.py):      *)
(* an Oracle connection holding the table stock_data, and the per-ticker   *)
(* loop fetch -> validate -> process -> store of run_pipeline.             *)
(*                                                                         *)
(* A pandas DataFrame is a record [none, rows]: none = TRUE is Python's    *)
(* None, rows is the sequence of its rows.  A missing value (NaN) of a     *)
(* numeric column is the number NaN, a missing timestamp is NaT, and a     *)
(* Date cell that is no timestamp at all (which makes the column of dtype  *)
(* object) is BadDate.                                                     *)
(***************************************************************************)
EXTENDS Integers, Sequences, FiniteSets, Bags, TLC

VARIABLES
    conn,            \* "none" | "open" | "closed": self.conn of the one pipeline object
    tableExists,     \* whether the table stock_data exists in the database
    table,           \* bag of the committed rows of stock_data
    pending,         \* bag of the rows inserted by self.conn and not yet committed
    pc,              \* where run_pipeline stands
    tickers,         \* the argument of the current run_pipeline call
    idx,             \* position of the loop of run_pipeline in tickers (1-based)
    raw_data,        \* local of run_pipeline
    validated_data,  \* local of run_pipeline
    processed_data,  \* local of run_pipeline
    err,             \* the logger.error call made for the current ticker (or at startup)
    outcomes         \* err of each ticker the current run has finished with, in order

vars == <<conn, tableExists, table, pending, pc, tickers, idx,
          raw_data, validated_data, processed_data, err, outcomes>>

(* ------------------------------ bounds -------------------------------- *)
MaxTickers == 2
MaxLen == 2
VMaxLen == 4

(* ------------------------------ values -------------------------------- *)
NaN == -1
NaT == 0
BadDate == -2
ThresholdNum == 1
ThresholdDen == 2

NullStr == <<>>
Tickers == {"A", "B"}
DateVals == {1, 2}
CloseVals == {1, 2}
VCloseVals == {1, 2, 3}
MissKinds == {"none", "Close", "Volume", "Dividends"}

None == [none |-> TRUE, rows |-> <<>>]
Frame(rows) == [none |-> FALSE, rows |-> rows]
IsEmpty(data) == data.rows = <<>>

Range(s) == {s[i] : i \in DOMAIN s}
Abs(x) == IF x < 0 THEN -x ELSE x

(* One row of the frame stock.history() returns, after reset_index and the *)
(* Ticker column: price p, the field named by miss missing.  Dividends     *)
(* stands for the columns of the frame other than the five checked ones.   *)
MkRow(d, p, miss, tk) ==
    [Date      |-> d,
     Open      |-> IF miss = "Open" THEN NaN ELSE p + 1,
     High      |-> IF miss = "High" THEN NaN ELSE p + 2,
     Low       |-> IF miss = "Low" THEN NaN ELSE p,
     Close     |-> IF miss = "Close" THEN NaN ELSE p,
     Volume    |-> IF miss = "Volume" THEN NaN ELSE 100 + p,
     Dividends |-> IF miss = "Dividends" THEN NaN ELSE 0,
     Ticker    |-> tk]

SeqsUpTo(S, n) == UNION {[1..k -> S] : k \in 0..n}

(* ------------------- validate_data (lines 71-91) ---------------------- *)
\* data[['Open','High','Low','Close','Volume']].isnull() for one row
IsNull5(r) ==
    \/ r.Open = NaN
    \/ r.High = NaN
    \/ r.Low = NaN
    \/ r.Close = NaN
    \/ r.Volume = NaN

HasNull5(rows) == \E i \in DOMAIN rows : IsNull5(rows[i])

\* a row DataFrame.dropna() keeps: no column of the row is missing
NoNullAnywhere(r) == ~IsNull5(r) /\ r.Dividends # NaN /\ r.Date # NaT

dropna(rows) == SelectSeq(rows, NoNullAnywhere)

\* lines 77-79: dropna runs only when one of the five columns has a null
CompletenessStep(rows) == IF HasNull5(rows) THEN dropna(rows) ELSE rows

\* a value of the column PriceChange: NaN, +-inf, or the fraction num/den
PctNaN == [kind |-> "nan", num |-> 0, den |-> 1]
PctInf == [kind |-> "inf", num |-> 0, den |-> 1]
Pct(prev, cur) ==
    IF prev = NaN \/ cur = NaN THEN PctNaN
    ELSE IF prev = 0 THEN (IF cur = 0 THEN PctNaN ELSE PctInf)
    ELSE [kind |-> "num", num |-> cur - prev, den |-> prev]

\* Series.pct_change(): row i against row i-1, the first row NaN
pct_change(rows) ==
    [i \in DOMAIN rows |->
        IF i = 1 THEN PctNaN ELSE Pct(rows[i - 1].Close, rows[i].Close)]

\* abs(x) > 0.5 and abs(x) <= 0.5 as pandas evaluates them: both are
\* False of NaN
IsExtreme(x) ==
    \/ x.kind = "inf"
    \/ x.kind = "num" /\ Abs(x.num) * ThresholdDen > Abs(x.den) * ThresholdNum

IsWithin(x) ==
    x.kind = "num" /\ Abs(x.num) * ThresholdDen <= Abs(x.den) * ThresholdNum

\* line 81: data['PriceChange'] = data['Close'].pct_change()
AddPriceChange(rows) ==
    LET ch == pct_change(rows)
    IN [i \in DOMAIN rows |-> [PriceChange |-> ch[i]] @@ rows[i]]

RowIsExtreme(r) == IsExtreme(r.PriceChange)
RowIsWithin(r) == IsWithin(r.PriceChange)

\* lines 82-85 without the test of line 83: the filter of line 85 runs on
\* every series
OutlierStepAlways(rows) == SelectSeq(rows, RowIsWithin)

\* lines 82-85
OutlierStep(rows) ==
    IF \E i \in DOMAIN rows : RowIsExtreme(rows[i])
    THEN SelectSeq(rows, RowIsWithin)
    ELSE rows

validate_data(data) ==
    IF data.none \/ IsEmpty(data) THEN None
    ELSE Frame(OutlierStep(AddPriceChange(CompletenessStep(data.rows))))

\* The frame the caller passed, after the call: line 81 assigns the column
\* to the caller's frame unless line 79 rebound data to the copy dropna made.
InputAfterValidate(data) ==
    IF data.none \/ IsEmpty(data) \/ HasNull5(data.rows) THEN data
    ELSE Frame(AddPriceChange(data.rows))

(* ------------------- process_data (lines 93-109) ---------------------- *)
\* Timestamp.strftime('%Y-%m-%d') of a day of the fetched month: the two
\* digits of the day (the year-month prefix is the same for every row);
\* the .dt accessor gives a missing string for NaT.
\* the format '%Y-%m-%-d', the day without its leading zero
strftime_nopad(d) == IF d = NaT THEN NullStr ELSE <<d>>

strftime(d) == IF d = NaT THEN NullStr ELSE <<d \div 10, d % 10>>

\* .dt raises AttributeError when the Date column is not datetime-like
ProcessRaises(data) ==
    /\ ~data.none
    /\ ~IsEmpty(data)
    /\ \E i \in DOMAIN data.rows : data.rows[i].Date = BadDate

ProjectRow(r) ==
    [stock_date |-> strftime(r.Date),
     ticker     |-> r.Ticker,
     open       |-> r.Open,
     high       |-> r.High,
     low        |-> r.Low,
     close      |-> r.Close,
     volume     |-> r.Volume]

process_data(data) ==
    IF data.none \/ IsEmpty(data) THEN None
    ELSE IF ProcessRaises(data) THEN None
    ELSE Frame([i \in DOMAIN data.rows |-> ProjectRow(data.rows[i])])

(* -------------------- store_data (lines 111-128) ---------------------- *)
Key(r) == <<r.stock_date, r.ticker>>

\* the table without the uniqueness of the key: only NOT NULL is enforced
ViolatesNotNullOnly(r, tbl, pend) == r.stock_date = NullStr

\* CONSTRAINT pk_stock_data PRIMARY KEY (stock_date, ticker): the key is
\* unique among the rows the session sees, and its columns are not null
ViolatesPK(r, tbl, pend) ==
    \/ r.stock_date = NullStr
    \/ \E x \in BagToSet(tbl) \cup BagToSet(pend) : Key(x) = Key(r)

\* cursor.executemany: the rows are inserted in order; the first row that
\* violates the constraint raises, the rows inserted before it stay in the
\* session's open transaction and the rows after it are not processed.
RECURSIVE executemany(_, _, _)
executemany(rows, tbl, pend) ==
    IF rows = <<>> THEN [ok |-> TRUE, pending |-> pend]
    ELSE IF ViolatesPK(Head(rows), tbl, pend) THEN [ok |-> FALSE, pending |-> pend]
    ELSE executemany(Tail(rows), tbl, pend (+) SetToBag({Head(rows)}))

\* conn.commit(): everything pending becomes committed
Commit(tbl, pend) == [table |-> tbl (+) pend, pending |-> EmptyBag]

\* store_data without the guard of lines 113-115: executemany of no rows
\* raises
store_data_unguarded(data, tbl, pend) ==
    IF data.none \/ IsEmpty(data)
    THEN [raised |-> TRUE, table |-> tbl, pending |-> pend]
    ELSE LET ins == executemany(data.rows, tbl, pend)
         IN IF ins.ok
            THEN [raised |-> FALSE] @@ Commit(tbl, ins.pending)
            ELSE [raised |-> TRUE, table |-> tbl, pending |-> ins.pending]

\* store_data with conn.commit() reached on the path of lines 113-115
store_data_commits_empty(data, tbl, pend) ==
    IF data.none \/ IsEmpty(data)
    THEN [raised |-> FALSE] @@ Commit(tbl, pend)
    ELSE LET ins == executemany(data.rows, tbl, pend)
         IN IF ins.ok
            THEN [raised |-> FALSE] @@ Commit(tbl, ins.pending)
            ELSE [raised |-> TRUE, table |-> tbl, pending |-> ins.pending]

store_data(data, tbl, pend) ==
    IF data.none \/ IsEmpty(data)
    THEN [raised |-> FALSE, table |-> tbl, pending |-> pend]
    ELSE LET ins == executemany(data.rows, tbl, pend)
         IN IF ins.ok
            THEN [raised |-> FALSE] @@ Commit(tbl, ins.pending)
            ELSE [raised |-> TRUE, table |-> tbl, pending |-> ins.pending]

(* ------------------------- the data source ---------------------------- *)
\* The rows stock.history() may return for ticker tk
FetchRows(tk) ==
    {MkRow(d, p, "none", tk) : d \in DateVals, p \in CloseVals}
        \cup {MkRow(NaT, 1, "none", tk), MkRow(BadDate, 1, "none", tk),
              MkRow(1, 1, "Close", tk), MkRow(2, 1, "Dividends", tk)}

FetchSet(tk) == {Frame(s) : s \in SeqsUpTo(FetchRows(tk), MaxLen)}

\* complete rows with well-formed dates and a steady price
PlainRows(tk) == {MkRow(d, 1, "none", tk) : d \in DateVals}

PlainSet(tk) == {Frame(s) : s \in SeqsUpTo(PlainRows(tk), MaxLen)}

(* ---------------------------- the actions ----------------------------- *)
Init ==
    /\ conn = "none"
    /\ tableExists = FALSE
    /\ table = EmptyBag
    /\ pending = EmptyBag
    /\ pc = "idle"
    /\ tickers = <<>>
    /\ idx = 0
    /\ raw_data = None
    /\ validated_data = None
    /\ processed_data = None
    /\ err = "none"
    /\ outcomes = <<>>

\* The locals of run_pipeline hold nothing outside a run, and nothing the
\* next iteration reads (lines 134-136 assign each before it is read).
ClearFrames ==
    /\ raw_data' = None
    /\ validated_data' = None
    /\ processed_data' = None

\* ORA-00942, table or view does not exist (line 35)
TableMissing == -942

\* the errors other than ORA-00942 that DROP TABLE may end with (ORA-00054,
\* resource busy; ORA-01031, insufficient privileges)
DropFaults == {-54, -1031}

\* SQLCODE of EXECUTE IMMEDIATE 'DROP TABLE stock_data' (line 32): the fault
\* the database reports, ORA-00942 when there is no table, 0 when dropped
DropSqlcode(exists, fault) ==
    IF fault # 0 THEN fault ELSE IF exists THEN 0 ELSE TableMissing

\* the handler of lines 33-37 without the test of line 35: every error of
\* the DROP is raised again
BlockRaisesAll(sqlcode) == sqlcode # 0

\* lines 33-37: the handler raises every error again but ORA-00942
BlockRaises(sqlcode) == sqlcode # 0 /\ sqlcode # TableMissing

\* __init__ (lines 13-24) with create_table (lines 26-56).  DROP TABLE and
\* CREATE TABLE are DDL: each commits on its own.
Construct(outcome) ==
    /\ conn # "open"
    /\ outcome = "drop_error"
           => \E fault \in DropFaults : BlockRaises(DropSqlcode(tableExists, fault))
    /\ outcome \in {"create_error", "ok"}
           => ~BlockRaises(DropSqlcode(tableExists, 0))
    /\ pc' = "idle"
    /\ pending' = EmptyBag
    /\ tickers' = <<>>
    /\ idx' = 0
    /\ outcomes' = <<>>
    /\ ClearFrames
    /\ CASE outcome = "connect_error" ->
                /\ err' = "connect"
                /\ conn' = "none"
                /\ UNCHANGED <<tableExists, table>>
         [] outcome = "drop_error" ->
                \* the PL/SQL block re-raises an error other than ORA-00942
                /\ err' = "schema"
                /\ conn' = "none"
                /\ UNCHANGED <<tableExists, table>>
         [] outcome = "create_error" ->
                /\ err' = "schema"
                /\ conn' = "none"
                /\ tableExists' = FALSE
                /\ table' = EmptyBag
         [] outcome = "ok" ->
                /\ err' = "none"
                /\ conn' = "open"
                /\ tableExists' = TRUE
                /\ table' = EmptyBag

\* close_connection (lines 139-145): closing rolls the open transaction back
close_connection ==
    /\ conn = "open"
    /\ pc \in {"idle", "done", "aborted"}
    /\ conn' = "closed"
    /\ pending' = EmptyBag
    /\ pc' = "idle"
    /\ tickers' = <<>>
    /\ idx' = 0
    /\ err' = "none"
    /\ outcomes' = <<>>
    /\ ClearFrames
    /\ UNCHANGED <<tableExists, table>>

\* run_pipeline is called (line 130); the loop takes the first ticker
CallRun(tks, from) ==
    /\ conn = "open"
    /\ pc \in from
    /\ tickers' = tks
    /\ idx' = 1
    /\ pc' = IF tks = <<>> THEN "done" ELSE "fetch"
    /\ ClearFrames
    /\ err' = "none"
    /\ outcomes' = <<>>
    /\ UNCHANGED <<conn, tableExists, table, pending>>

\* main (lines 158-160): one run_pipeline call on a new pipeline object
StartRun(tks) == CallRun(tks, {"idle"})

\* a caller that keeps the pipeline object and calls run_pipeline again,
\* after it returned or after it raised
RunAgain(tks) == CallRun(tks, {"idle", "done", "aborted"})

\* line 134: fetch_stock_data (lines 58-69) returns None on any exception
Fetch(frames) ==
    /\ pc = "fetch"
    /\ \/ raw_data' = None /\ err' = "fetch"
       \/ raw_data' \in frames /\ err' = "none"
    /\ validated_data' = None
    /\ processed_data' = None
    /\ pc' = "validate"
    /\ UNCHANGED <<conn, tableExists, table, pending, tickers, idx, outcomes>>

FetchStep == Fetch(FetchSet(tickers[idx]))

FetchPlain == Fetch(PlainSet(tickers[idx]))

\* line 135
ValidateStep ==
    /\ pc = "validate"
    /\ validated_data' = validate_data(raw_data)
    /\ raw_data' = InputAfterValidate(raw_data)
    /\ pc' = "process"
    /\ UNCHANGED <<conn, tableExists, table, pending, tickers, idx,
                   processed_data, err, outcomes>>

\* line 136
ProcessStep ==
    /\ pc = "process"
    /\ processed_data' = process_data(validated_data)
    /\ err' = IF ProcessRaises(validated_data) THEN "process" ELSE err
    /\ pc' = "store"
    /\ UNCHANGED <<conn, tableExists, table, pending, tickers, idx,
                   raw_data, validated_data, outcomes>>

\* line 137, and the loop's step to the next ticker; store_data re-raises a
\* database error (line 128) and run_pipeline does not catch it
StoreStep ==
    /\ pc = "store"
    /\ LET res == store_data(processed_data, table, pending)
       IN /\ table' = res.table
          /\ pending' = res.pending
          /\ IF res.raised
             THEN /\ err' = "storage"
                  /\ pc' = "aborted"
                  /\ idx' = idx
             ELSE /\ err' = err
                  /\ idx' = idx + 1
                  /\ pc' = IF idx = Len(tickers) THEN "done" ELSE "fetch"
    /\ outcomes' = Append(outcomes, err')
    /\ ClearFrames
    /\ UNCHANGED <<conn, tableExists, tickers>>

Next ==
    \/ \E outcome \in {"connect_error", "drop_error", "create_error", "ok"} :
           Construct(outcome)
    \/ close_connection
    \/ \E tks \in SeqsUpTo(Tickers, MaxTickers) : StartRun(tks)
    \/ FetchStep
    \/ ValidateStep
    \/ ProcessStep
    \/ StoreStep

Spec == Init /\ [][Next]_vars

(* ------- the same pipeline object used for one run after another ------ *)
NextReuse ==
    \/ \E outcome \in {"connect_error", "drop_error", "create_error", "ok"} :
           Construct(outcome)
    \/ close_connection
    \/ \E tks \in SeqsUpTo(Tickers, MaxTickers) : RunAgain(tks)
    \/ FetchPlain
    \/ ValidateStep
    \/ ProcessStep
    \/ StoreStep

SpecReuse == Init /\ [][NextReuse]_vars

(* ---------- validate_data alone, over a wider set of inputs ----------- *)
\* the series of k rows on consecutive days with prices and gaps f
VSeries(k, f) == [i \in 1..k |-> MkRow(i, f[i][1], f[i][2], "A")]

InitV ==
    /\ conn = "none"
    /\ tableExists = FALSE
    /\ table = EmptyBag
    /\ pending = EmptyBag
    /\ pc = "vcall"
    /\ tickers = <<>>
    /\ idx = 0
    /\ \/ raw_data = None
       \/ \E k \in 0..VMaxLen :
              \E f \in [1..k -> VCloseVals \X MissKinds] :
                  raw_data = Frame(VSeries(k, f))
    /\ validated_data = None
    /\ processed_data = None
    /\ err = "none"
    /\ outcomes = <<>>

ValidateCall ==
    /\ pc = "vcall"
    /\ validated_data' = validate_data(raw_data)
    /\ raw_data' = InputAfterValidate(raw_data)
    /\ pc' = "vret"
    /\ UNCHANGED <<conn, tableExists, table, pending, tickers, idx,
                   processed_data, err, outcomes>>

NextV == ValidateCall

SpecV == InitV /\ [][NextV]_vars

(* ============================== claims ================================ *)
StoreRaises == store_data(processed_data, table, pending).raised
NextPc == IF idx = Len(tickers) THEN "done" ELSE "fetch"

\* C1 (as claimed): when store_data fails for a ticker, the ticker is marked
\* failed and the loop goes on to the next ticker; the storage error never
\* leaves the loop of run_pipeline.
C1_StorageErrorIsolated ==
    [][(pc = "store" /\ StoreRaises)
          => (err' = "storage" /\ idx' = idx + 1 /\ pc' = NextPc)]_vars

\* C2 (as claimed): a failed fetch does not abort the run.  The ticker whose
\* fetch failed leaves the table and the open transaction as they are, the
\* loop moves on to the next ticker, and every later ticker of the run is
\* processed: the run is not left once a fetch has failed.
FetchHasFailed == err = "fetch" \/ "fetch" \in Range(outcomes)
C2_FetchFailureIsolated ==
    [][/\ (err = "fetch" /\ pc \in {"validate", "process", "store"})
            => /\ table' = table
               /\ pending' = pending
               /\ pc = "store" => (idx' = idx + 1 /\ pc' = NextPc)
       /\ (FetchHasFailed /\ pc \in {"fetch", "validate", "process", "store"})
            => pc' # "aborted"
      ]_vars

\* C3 (as claimed): every store_data call commits all rows of its batch or
\* none: a step of store_data leaves the committed table as it was or adds
\* exactly the rows of the batch it was called with.
C3_BatchAtomic ==
    [][pc = "store"
          => \/ table' = table
             \/ table' = table (+) SetToBag(Range(processed_data.rows))]_vars

\* C4: no two rows of the table, committed or inserted in the open
\* transaction, share (stock_date, ticker); storing a key that is present
\* never yields a second row for it.
C4_UniqueKey ==
    LET all == table (+) pending
    IN \A r \in BagToSet(all) :
           /\ CopiesIn(r, all) = 1
           /\ \A q \in BagToSet(all) : Key(q) = Key(r) => q = r

\* both days of ticker A were committed and a second batch for A was refused
C4_Witness ==
    /\ pc = "aborted"
    /\ tickers = <<"A", "A">>
    /\ outcomes = <<"none", "storage">>
    /\ BagCardinality(table) = 2

\* C5 (as claimed): the rows committed before a pipeline is constructed are
\* still in the table after its construction.
C5_RowsSurviveStartup ==
    [][(conn # "open" /\ conn' = "open")
          => \A r \in BagToSet(table) : BagIn(r, table')]_vars

\* C6 (as claimed): no two adjacent rows of the output of validate_data have
\* an absolute close-to-close change above the threshold.
C6_NoAdjacentExtreme ==
    (pc = "vret" /\ ~validated_data.none)
        => \A i \in 2..Len(validated_data.rows) :
               ~IsExtreme(Pct(validated_data.rows[i - 1].Close,
                              validated_data.rows[i].Close))

\* C7 (as claimed): for a series of complete rows with an extreme change in
\* some row, the output of validate_data is the input without the rows of
\* extreme change, the first row kept.
RowNotExtreme(r) == ~RowIsExtreme(r)
C7_OnlyExtremeRowsDropped ==
    (/\ pc = "vret"
     /\ ~raw_data.none
     /\ ~HasNull5(raw_data.rows)
     /\ \E i \in DOMAIN raw_data.rows : RowIsExtreme(raw_data.rows[i]))
        => validated_data.rows = SelectSeq(raw_data.rows, RowNotExtreme)

\* C8 (as claimed): when some row misses one of the five fields, the
\* completeness step removes exactly the rows missing one of the five.
RowHasAll5(r) == ~IsNull5(r)
C8_ExactlyIncompleteRowsDropped ==
    (pc = "vret" /\ ~raw_data.none /\ HasNull5(raw_data.rows))
        => CompletenessStep(raw_data.rows) = SelectSeq(raw_data.rows, RowHasAll5)

\* C9 (as claimed): when the validated series has a row whose date is no
\* valid calendar date, process_data fails with an error (nothing is handed
\* to store_data) and the loop goes on to the next ticker.
HasInvalidDate(data) ==
    /\ ~data.none
    /\ \E i \in DOMAIN data.rows : data.rows[i].Date \in {NaT, BadDate}
C9_InvalidDateFailsTicker ==
    [][(pc = "store" /\ HasInvalidDate(validated_data))
          => /\ err = "process"
             /\ processed_data.none
             /\ idx' = idx + 1
             /\ pc' = NextPc]_vars

\* C10: when validation gives an empty result for a ticker whose fetch
\* succeeded, no error is logged for the ticker, process_data hands nothing
\* to store_data, the table and the open transaction are unchanged, and the
\* loop goes on to the next ticker.
EmptyResult(data) == data.none \/ IsEmpty(data)
C10_EmptyValidationIsDone ==
    [][(pc \in {"process", "store"} /\ err = "none" /\ EmptyResult(validated_data))
          => /\ err' = "none"
             /\ table' = table
             /\ pending' = pending
             /\ pc = "process" => processed_data'.none
             /\ pc = "store" => (idx' = idx + 1 /\ pc' = NextPc
                                   /\ outcomes' = Append(outcomes, "none"))]_vars

\* every row of a fetched series was filtered out, and more tickers follow
C10_Witness ==
    /\ pc = "store"
    /\ err = "none"
    /\ ~raw_data.none
    /\ raw_data.rows # <<>>
    /\ ~validated_data.none
    /\ validated_data.rows = <<>>
    /\ processed_data.none
    /\ idx < Len(tickers)

\* run_pipeline (lines 130-137) has no return statement and logs no count:
\* what the call gives its caller when the loop has completed
run_pipeline_result == None

\* C11 (as claimed): when the loop of run_pipeline has completed, the run
\* reports a summary whose Done and Failed counts add up to the number of
\* tickers given and whose stored count is the number of rows the run
\* committed (the table is empty when the one run of Spec starts).
C11_SummaryReported ==
    pc = "done"
        => /\ ~run_pipeline_result.none
           /\ run_pipeline_result.done + run_pipeline_result.failed = Len(tickers)
           /\ run_pipeline_result.stored = BagCardinality(table)

\* C12: a ticker is stored whose fetched series has n rows with distinct
\* calendar dates, all five fields present and no change above the
\* threshold, the table holding no row of the ticker: the step commits
\* exactly n rows for the ticker, one per fetched row, in addition to the
\* rows the table had, each with the day formatted and the row's open, high,
\* low, close and volume.
CleanSeries(data) ==
    /\ ~data.none
    /\ \A i \in DOMAIN data.rows :
           /\ data.rows[i].Date \in DateVals
           /\ ~IsNull5(data.rows[i])
           /\ i > 1 => ~IsExtreme(Pct(data.rows[i - 1].Close, data.rows[i].Close))
    /\ \A i, j \in DOMAIN data.rows :
           data.rows[i].Date = data.rows[j].Date => i = j
RowsOfTicker(tbl, tk) == {r \in BagToSet(tbl) : r.ticker = tk}
StoredAs(x, r) ==
    /\ x.stock_date = <<r.Date \div 10, r.Date % 10>>
    /\ x.ticker = r.Ticker
    /\ x.open = r.Open
    /\ x.high = r.High
    /\ x.low = r.Low
    /\ x.close = r.Close
    /\ x.volume = r.Volume
C12_CleanSeriesStoredWhole ==
    [][(/\ pc = "store"
        /\ CleanSeries(raw_data)
        /\ RowsOfTicker(table (+) pending, tickers[idx]) = {})
          => /\ Cardinality(RowsOfTicker(table', tickers[idx])) = Len(raw_data.rows)
             /\ \A i \in DOMAIN raw_data.rows :
                    \E x \in RowsOfTicker(table', tickers[idx]) :
                        /\ StoredAs(x, raw_data.rows[i])
                        /\ CopiesIn(x, table') = 1
             /\ \A x \in BagToSet(table) : CopiesIn(x, table') = CopiesIn(x, table)
             /\ pending' = pending
             /\ pc' = NextPc]_vars

\* a run of one ticker has ended with two rows of a falling price committed
C12_Witness ==
    /\ pc = "done"
    /\ tickers = <<"A">>
    /\ outcomes = <<"none">>
    /\ Cardinality(RowsOfTicker(table, "A")) = 2
    /\ \E x, y \in RowsOfTicker(table, "A") : x.close = 2 /\ y.close = 1

\* C13 (as claimed): validate_data leaves the frame passed to it as it was:
\* the same rows with the same columns after the call as before it.
C13_InputNotMutated == [][pc = "vcall" => raw_data' = raw_data]_vars

\* C14: startup can succeed when there is no table to drop, and a pipeline
\* whose connection is open has its table; a startup that ended with a
\* connection or schema error leaves no pipeline to run: no connection is
\* open, no run has started, and a run is only ever under way on a pipeline
\* whose startup succeeded.
Running == pc \in {"fetch", "validate", "process", "store"}
C14_SchemaEstablishment ==
    /\ (conn # "open" /\ ~tableExists)
           => ENABLED (Construct("ok") /\ conn' = "open" /\ tableExists')
    /\ conn = "open" => tableExists
    /\ err \in {"connect", "schema"}
           => (conn = "none" /\ pc = "idle" /\ tickers = <<>> /\ pending = EmptyBag)
    /\ Running => (conn = "open" /\ tableExists)

\* a startup failed on dropping the table an earlier startup had created
\* where there was none
C14_Witness ==
    /\ conn = "none"
    /\ err = "schema"
    /\ tableExists
    /\ pc = "idle"

\* C15: store_data called with None or with a frame of no rows raises
\* nothing and leaves the committed rows and the rows of the open
\* transaction as they are, in every state the pipeline reaches; the step of
\* run_pipeline that calls it so commits nothing and does not leave the loop.
C15_EmptyStoreIsNoOp ==
    [][/\ \A d \in {None, Frame(<<>>)} :
              LET res == store_data(d, table, pending)
              IN ~res.raised /\ res.table = table /\ res.pending = pending
       /\ (pc = "store" /\ EmptyResult(processed_data))
              => /\ table' = table
                 /\ pending' = pending
                 /\ err' # "storage"
                 /\ pc' = NextPc]_vars

\* store_data was called with None (the fetch had failed) while rows of an
\* earlier failed batch were in the open transaction
C15_Witness ==
    /\ pc \in {"fetch", "done"}
    /\ outcomes # <<>>
    /\ outcomes[Len(outcomes)] = "fetch"
    /\ pending # EmptyBag

\* C16: for a validated series whose dates are calendar dates, process_data
\* returns as many records as the series has rows, record i made of row i:
\* its ticker, its open, high, low, close and volume, and its day as two
\* digits after the year and month; equal rows stay apart.  Of a series of
\* no rows it returns no record (None).
WellFormedDates(data) ==
    ~data.none /\ \A i \in DOMAIN data.rows : data.rows[i].Date \in DateVals
C16_OneRecordPerRow ==
    (pc = "store" /\ WellFormedDates(validated_data))
        => IF validated_data.rows = <<>>
           THEN processed_data.none
           ELSE /\ ~processed_data.none
                /\ Len(processed_data.rows) = Len(validated_data.rows)
                /\ \A i \in DOMAIN validated_data.rows :
                       /\ StoredAs(processed_data.rows[i], validated_data.rows[i])
                       /\ DOMAIN processed_data.rows[i] =
                              {"stock_date", "ticker", "open", "high",
                               "low", "close", "volume"}

\* two rows of the same day go through process_data as two equal records,
\* on a later day than a first row
C16_Witness ==
    /\ pc = "store"
    /\ WellFormedDates(validated_data)
    /\ ~processed_data.none
    /\ Len(processed_data.rows) = 2
    /\ processed_data.rows[1] = processed_data.rows[2]
    /\ processed_data.rows[1].stock_date = <<0, 2>>

\* the rows a step adds to the committed table
NewlyCommitted(tbl, tbl2) ==
    {r \in BagToSet(tbl2) : CopiesIn(r, tbl2) > CopiesIn(r, tbl)}

\* C17 (as claimed): the tickers are taken in the given order, one at a
\* time: while ticker idx is in a stage, every ticker before it has been
\* through its store_data call and none after it has been started; each
\* commit covers rows of the one store_data call that made it, and the open
\* transaction never holds rows of two tickers.
C17_OneTickerAtATime ==
    [][/\ Running => (Len(outcomes) = idx - 1 /\ idx \in 1..Len(tickers))
       /\ (Running /\ pc # "store") => (idx' = idx /\ tickers' = tickers)
       /\ pc = "store"
              => /\ (idx' = idx + 1 \/ pc' = "aborted")
                 /\ \A r \in NewlyCommitted(table, table') :
                        /\ r.ticker = tickers[idx]
                        /\ r \in Range(processed_data.rows)
       /\ \A x, y \in BagToSet(pending') : x.ticker = y.ticker]_vars

\* C18 (as claimed): every row a step commits was made of a row the current
\* ticker's validation returned, with its five fields present and a change
\* not above the threshold, for a ticker of the run's list; no row is
\* committed that validate_data did not return for the ticker being stored,
\* and none of a ticker one of whose stages failed.
C18_OnlyValidatedRowsCommitted ==
    [][pc = "store"
          => \A r \in NewlyCommitted(table, table') :
                 /\ err = "none"
                 /\ r.ticker \in Range(tickers)
                 /\ ~validated_data.none
                 /\ \E i \in DOMAIN validated_data.rows :
                        /\ StoredAs(r, validated_data.rows[i])
                        /\ ~IsNull5(validated_data.rows[i])
                        /\ ~RowIsExtreme(validated_data.rows[i])]_vars
====
